---- MODULE Spec2Model ----
(***************************************************************************)
(* Model of the word-count scoring service (src/main.go): the WordScorer   *)
(* (NewWordScorer, CountWords, CalculateScore), the ScoreHandler's         *)
(* PostScore and the start-up sequence of main.                            *)
(*                                                                         *)
(* CalculateScore computes in float64 and converts back to int.  Go's int  *)
(* is 64 bits wide on the usual builds and float64 carries a 53-bit        *)
(* significand, so neither fits a 32-bit integer.  Integers are therefore  *)
(* held as a sign and a magnitude, the magnitude a sequence of limbs, and  *)
(* every float64 operation is the exact result rounded to the nearest      *)
(* 53-bit significand, ties to even, as IEEE 754 defines.                  *)
(***************************************************************************)
EXTENDS Integers, Sequences, FiniteSets, TLC

(***************************************************************************)
(* Natural numbers of any size: little-endian sequences of limbs in base   *)
(* 2^15, without high zero limbs.  The empty sequence is 0.                *)
(***************************************************************************)
Base == 2^15

Max2(a, b) == IF a >= b THEN a ELSE b

RECURSIVE BigNorm(_)
BigNorm(a) ==
    IF a = << >> THEN << >>
    ELSE IF a[Len(a)] = 0 THEN BigNorm(SubSeq(a, 1, Len(a) - 1))
    ELSE a

RECURSIVE BigOf(_)
BigOf(n) == IF n = 0 THEN << >> ELSE <<n % Base>> \o BigOf(n \div Base)

Limb(a, i) == IF i <= Len(a) THEN a[i] ELSE 0

RECURSIVE CmpFrom(_, _, _)
CmpFrom(a, b, i) ==
    IF i = 0 THEN 0
    ELSE IF a[i] > b[i] THEN 1
    ELSE IF a[i] < b[i] THEN -1
    ELSE CmpFrom(a, b, i - 1)

\* -1, 0 or 1 as a < b, a = b or a > b
BigCmp(a, b) ==
    IF Len(a) > Len(b) THEN 1
    ELSE IF Len(a) < Len(b) THEN -1
    ELSE CmpFrom(a, b, Len(a))

RECURSIVE AddFrom(_, _, _, _)
AddFrom(a, b, i, carry) ==
    IF i > Max2(Len(a), Len(b))
    THEN (IF carry = 0 THEN << >> ELSE <<carry>>)
    ELSE LET s == Limb(a, i) + Limb(b, i) + carry
         IN  <<s % Base>> \o AddFrom(a, b, i + 1, s \div Base)

BigAdd(a, b) == AddFrom(a, b, 1, 0)

RECURSIVE SubFrom(_, _, _, _)
SubFrom(a, b, i, borrow) ==
    IF i > Len(a) THEN << >>
    ELSE LET s == a[i] - Limb(b, i) - borrow
         IN  IF s < 0 THEN <<s + Base>> \o SubFrom(a, b, i + 1, 1)
             ELSE <<s>> \o SubFrom(a, b, i + 1, 0)

\* a - b for a >= b
BigSub(a, b) == BigNorm(SubFrom(a, b, 1, 0))

RECURSIVE MulSmallFrom(_, _, _, _)
MulSmallFrom(a, k, i, carry) ==
    IF i > Len(a) THEN (IF carry = 0 THEN << >> ELSE <<carry>>)
    ELSE LET s == a[i] * k + carry
         IN  <<s % Base>> \o MulSmallFrom(a, k, i + 1, s \div Base)

\* a * k for 0 <= k < Base
BigMulSmall(a, k) == IF k = 0 THEN << >> ELSE MulSmallFrom(a, k, 1, 0)

BigShlLimbs(a, n) == IF a = << >> THEN << >> ELSE [i \in 1..n |-> 0] \o a

\* a * 2^k
BigShl(a, k) == BigShlLimbs(BigMulSmall(a, 2^(k % 15)), k \div 15)

\* a \div 2^k
BigShr(a, k) ==
    LET drop == k \div 15
        bits == k % 15
        rest == IF drop >= Len(a) THEN << >> ELSE SubSeq(a, drop + 1, Len(a))
    IN  BigNorm([j \in 1..Len(rest) |->
                    (rest[j] \div 2^bits)
                    + (Limb(rest, j + 1) % 2^bits) * 2^(15 - bits)])

\* a % 2^k
BigLow(a, k) ==
    LET keep == k \div 15
        bits == k % 15
    IN  IF keep >= Len(a) THEN a
        ELSE BigNorm(SubSeq(a, 1, keep) \o <<a[keep + 1] % 2^bits>>)

RECURSIVE MulFrom(_, _, _)
MulFrom(a, b, i) ==
    IF i > Len(b) THEN << >>
    ELSE BigAdd(BigShlLimbs(BigMulSmall(a, b[i]), i - 1), MulFrom(a, b, i + 1))

BigMul(a, b) == MulFrom(a, b, 1)

RECURSIVE SmallBitLen(_)
SmallBitLen(n) == IF n = 0 THEN 0 ELSE 1 + SmallBitLen(n \div 2)

\* the number of binary digits of a (0 for a = 0)
BitLen(a) ==
    IF a = << >> THEN 0 ELSE 15 * (Len(a) - 1) + SmallBitLen(a[Len(a)])

BigIsOdd(a) == a # << >> /\ a[1] % 2 = 1

\* One quotient limb: the largest q < Base with q * d <= r, found bit by bit.
RECURSIVE DigitFrom(_, _, _, _)
DigitFrom(r, d, j, q) ==
    IF j < 0 THEN [q |-> q, r |-> r]
    ELSE LET t == BigMulSmall(d, 2^j)
         IN  IF BigCmp(r, t) >= 0
             THEN DigitFrom(BigSub(r, t), d, j - 1, q + 2^j)
             ELSE DigitFrom(r, d, j - 1, q)

\* Long division, the limbs of n taken from the most significant one; the
\* quotient's leading zero limbs are dropped as they come.
RECURSIVE DivFrom(_, _, _, _, _)
DivFrom(n, d, i, q, r) ==
    IF i = 0 THEN [q |-> q, r |-> r]
    ELSE LET r1 == BigNorm(<<n[i]>> \o r)
         IN  IF BigCmp(r1, d) < 0
             THEN DivFrom(n, d, i - 1, IF q = << >> THEN << >> ELSE <<0>> \o q, r1)
             ELSE LET dg == DigitFrom(r1, d, 14, 0)
                  IN  IF dg.q = 0
                      THEN DivFrom(n, d, i - 1, q, dg.r)
                      ELSE DivFrom(n, d, i - 1, <<dg.q>> \o q, dg.r)

\* [q |-> n \div d, r |-> n % d] for d > 0
BigDivMod(n, d) == DivFrom(n, d, Len(n), << >>, << >>)

(***************************************************************************)
(* Go's int (64 bits): a sign and a magnitude.                             *)
(***************************************************************************)
IntOf(n) == [neg |-> n < 0, mag |-> BigOf(IF n < 0 THEN -n ELSE n)]

\* n + 2^k, n * 2^k + d: how the configurations near 2^53 and 2^63 are written
IntPow2Plus(k, d) ==
    [neg |-> FALSE,
     mag |-> IF d >= 0 THEN BigAdd(BigShl(<<1>>, k), BigOf(d))
             ELSE BigSub(BigShl(<<1>>, k), BigOf(-d))]

\* -1, 0 or 1 as x < y, x = y or x > y
IntCmp(x, y) ==
    IF x.neg /\ ~y.neg THEN -1
    ELSE IF ~x.neg /\ y.neg THEN 1
    ELSE IF x.neg THEN BigCmp(y.mag, x.mag)
    ELSE BigCmp(x.mag, y.mag)

IntLt(x, y) == IntCmp(x, y) < 0

IntLe(x, y) == IntCmp(x, y) <= 0

\* x - y for x >= y >= 0, the only subtraction CalculateScore performs:
\* NewWordScorer builds a scorer only when MaxScore >= MinScore >= 0
IntSub(x, y) == [neg |-> FALSE, mag |-> BigSub(x.mag, y.mag)]

MinInt64 == [neg |-> TRUE, mag |-> BigShl(<<1>>, 63)]

MaxInt64 == [neg |-> FALSE, mag |-> BigSub(BigShl(<<1>>, 63), <<1>>)]

(***************************************************************************)
(* float64, the non-negative finite values: m * 2^e with m = 0 or          *)
(* 2^52 <= m < 2^53.  The values CalculateScore handles lie between 2^-63  *)
(* and 2^65, far from the subnormal and the overflow range.                *)
(***************************************************************************)
Precision == 53

FZero == [m |-> << >>, e |-> 0]

\* m * 2^e rounded to the nearest float64, ties to the even significand
RoundDyadic(m, e) ==
    LET k == BitLen(m) - Precision
    IN  IF m = << >> THEN FZero
        ELSE IF k <= 0 THEN [m |-> BigShl(m, -k), e |-> e + k]
        ELSE LET q  == BigShr(m, k)
                 c  == BigCmp(BigLow(m, k), BigShl(<<1>>, k - 1))
                 up == c > 0 \/ (c = 0 /\ BigIsOdd(q))
                 m1 == IF up THEN BigAdd(q, <<1>>) ELSE q
             IN  IF BitLen(m1) > Precision
                 THEN [m |-> BigShr(m1, 1), e |-> e + k + 1]
                 ELSE [m |-> m1, e |-> e + k]

\* the number of low zero limbs two numbers share
RECURSIVE ZeroLimbs(_, _, _)
ZeroLimbs(n, d, i) ==
    IF i < Len(n) /\ i < Len(d) /\ n[i + 1] = 0 /\ d[i + 1] = 0
    THEN ZeroLimbs(n, d, i + 1)
    ELSE i

\* The quotient n / d of two significands (2^52 <= n, d < 2^53) rounded to
\* the nearest float64, ties to even: n / d lies in (1/2, 2), so the
\* significand is n * 2^53 \div d when n < d and n * 2^52 \div d otherwise.
RoundQuotient(n, d) ==
    LET z  == ZeroLimbs(n, d, 0)
        n1 == SubSeq(n, z + 1, Len(n))
        d1 == SubSeq(d, z + 1, Len(d))
        s  == IF BigCmp(n, d) < 0 THEN Precision ELSE Precision - 1
        qr == BigDivMod(BigShl(n1, s), d1)
        c  == BigCmp(BigShl(qr.r, 1), d1)
        up == c > 0 \/ (c = 0 /\ BigIsOdd(qr.q))
        m  == IF up THEN BigAdd(qr.q, <<1>>) ELSE qr.q
    IN  IF BitLen(m) > Precision
        THEN [m |-> BigShr(m, 1), e |-> 1 - s]
        ELSE [m |-> m, e |-> -s]

\* float64(x) for an int x >= 0
FloatOfInt(x) == RoundDyadic(x.mag, 0)

\* a / b for b > 0
FDiv(a, b) ==
    IF a.m = << >> THEN FZero
    ELSE LET q == RoundQuotient(a.m, b.m)
         IN  [m |-> q.m, e |-> q.e + a.e - b.e]

FMul(a, b) == RoundDyadic(BigMul(a.m, b.m), a.e + b.e)

FAdd(a, b) ==
    LET e == IF a.e <= b.e THEN a.e ELSE b.e
    IN  RoundDyadic(BigAdd(BigShl(a.m, a.e - e), BigShl(b.m, b.e - e)), e)

\* math.Round(f): the nearest integer, halves away from zero
MathRound(f) ==
    IF f.e >= 0 THEN BigShl(f.m, f.e)
    ELSE BigShr(BigAdd(f.m, BigShl(<<1>>, -f.e - 1)), -f.e)

(***************************************************************************)
(* The scorer                                                              *)
(***************************************************************************)
\* int(x) for a float64 x holding the integer v >= 0.  A value that int64
\* cannot represent converts to an implementation-dependent result: the
\* amd64 build yields the smallest int64, the arm64 build the largest.
Archs == {"amd64", "arm64"}

IntOfFloat(v, arch) ==
    IF BitLen(v) <= 63 THEN [neg |-> FALSE, mag |-> v]
    ELSE IF arch = "amd64" THEN MinInt64
    ELSE MaxInt64

\* strings.Fields: the maximal runs of non-space characters of a text.  A
\* text is a sequence of characters; unicode.IsSpace holds of the blank and
\* the line feed among those the model draws from.
IsSpace(c) == c \in {" ", "\n"}

\* the places where a field starts: a non-space character that opens the
\* text or follows a space, which is how strings.Fields counts its fields
FieldStarts(text) ==
    { i \in 1..Len(text) :
        ~IsSpace(text[i]) /\ (i = 1 \/ IsSpace(text[i - 1])) }

CountWords(text) == Cardinality(FieldStarts(text))

\* ScoreOfCount without its two clamping branches
ScoreOfCountUnclamped(cfg, wordCount, arch) ==
    IF wordCount = 0
    THEN [branch |-> "zero", score |-> cfg.MinScore]
    ELSE IF IntLe(cfg.ThresholdWordsForMaxScore, IntOf(wordCount))
    THEN [branch |-> "saturated", score |-> cfg.MaxScore]
    ELSE [branch |-> "interpolated",
          score |-> IntOfFloat(MathRound(
                        FAdd(FloatOfInt(cfg.MinScore),
                             FMul(FDiv(FloatOfInt(IntOf(wordCount)),
                                       FloatOfInt(cfg.ThresholdWordsForMaxScore)),
                                  FloatOfInt(IntSub(cfg.MaxScore, cfg.MinScore))))),
                        arch)]

\* ScoreOfCount returning the wrong end of the range at the threshold
ScoreOfCountSaturatingLow(cfg, wordCount, arch) ==
    IF wordCount = 0 \/ IntLe(cfg.ThresholdWordsForMaxScore, IntOf(wordCount))
    THEN [branch |-> "saturated", score |-> cfg.MinScore]
    ELSE ScoreOfCountUnclamped(cfg, wordCount, arch)

\* CalculateScore from the word count on: the branch taken, the rounded
\* value before the clamp and the score returned
ScoreOfCount(cfg, wordCount, arch) ==
    IF wordCount = 0
    THEN [branch |-> "zero", score |-> cfg.MinScore]
    ELSE IF IntLe(cfg.ThresholdWordsForMaxScore, IntOf(wordCount))
    THEN [branch |-> "saturated", score |-> cfg.MaxScore]
    ELSE LET scoreRange == FloatOfInt(IntSub(cfg.MaxScore, cfg.MinScore))
             progress == FDiv(FloatOfInt(IntOf(wordCount)),
                              FloatOfInt(cfg.ThresholdWordsForMaxScore))
             calculatedScore == FAdd(FloatOfInt(cfg.MinScore),
                                     FMul(progress, scoreRange))
             finalScore == IntOfFloat(MathRound(calculatedScore), arch)
         IN  IF IntLt(finalScore, cfg.MinScore)
             THEN [branch |-> "clampLow", score |-> cfg.MinScore]
             ELSE IF IntLt(cfg.MaxScore, finalScore)
             THEN [branch |-> "clampHigh", score |-> cfg.MaxScore]
             ELSE [branch |-> "interpolated", score |-> finalScore]

CalculateScore(cfg, text, arch) ==
    ScoreOfCount(cfg, CountWords(text), arch).score

(***************************************************************************)
(* Construction                                                            *)
(***************************************************************************)
Zero == IntOf(0)

NoError == "nil"

WriteError == "write error"

\* what log.Output returns: nil, or the error of a failed write to the
\* logger's output
LogOutputResults == {NoError, WriteError}

Config(min, max, threshold) ==
    [MinScore |-> min, MaxScore |-> max, ThresholdWordsForMaxScore |-> threshold]

NilScorer == [nil |-> TRUE, config |-> Config(Zero, Zero, Zero)]

\* NewWordScorer: each rejection returns no scorer and whatever log.Output
\* returned for the message
NewWordScorer(cfg, logResult) ==
    IF IntLt(cfg.MinScore, Zero)
    THEN [scorer |-> NilScorer, err |-> logResult]
    ELSE IF IntLt(cfg.MaxScore, cfg.MinScore)
    THEN [scorer |-> NilScorer, err |-> logResult]
    ELSE IF IntLe(cfg.ThresholdWordsForMaxScore, Zero)
    THEN [scorer |-> NilScorer, err |-> logResult]
    ELSE [scorer |-> [nil |-> FALSE, config |-> cfg], err |-> NoError]

(***************************************************************************)
(* The inputs                                                              *)
(***************************************************************************)
MaxSmallScore == 3

MaxSmallThreshold == 4

MaxTextLen == 3

MaxWords == 51

\* main's scorerConfig
DefaultConfig == Config(IntOf(20), IntOf(40), IntOf(50))

SmallConfigs ==
    { Config(IntOf(min), IntOf(max), IntOf(t)) :
        min \in -1..MaxSmallScore, max \in -1..MaxSmallScore,
        t \in -1..MaxSmallThreshold }

\* configurations whose interpolation meets a tie, and configurations at
\* the edge of what float64 and int64 represent
EdgeConfigs ==
    { Config(Zero, IntOf(45), IntOf(10)),
      Config(IntPow2Plus(53, 1), IntPow2Plus(53, 1), IntOf(2)),
      Config(IntPow2Plus(53, 3), IntPow2Plus(53, 3), IntOf(2)),
      Config(IntPow2Plus(53, 1), IntPow2Plus(53, 5), IntOf(2)),
      Config(IntPow2Plus(63, -4096), MaxInt64, IntOf(16)),
      Config(MaxInt64, MaxInt64, IntOf(2)) }

Configs == SmallConfigs \cup EdgeConfigs \cup {DefaultConfig}

Chars == {"a", " ", "\n"}

RECURSIVE SeqsUpTo(_, _)
SeqsUpTo(S, n) ==
    IF n = 0 THEN {<< >>}
    ELSE LET shorter == SeqsUpTo(S, n - 1)
         IN  shorter \cup { Append(t, c) : t \in shorter, c \in S }

SmallTexts == SeqsUpTo(Chars, MaxTextLen)

\* k words, a blank between each two
WordsText(k) == [i \in 1..(IF k = 0 THEN 0 ELSE 2 * k - 1) |->
                    IF i % 2 = 1 THEN "a" ELSE " "]

Texts == SmallTexts \cup { WordsText(k) : k \in 0..MaxWords }

MaxRequests == 2

MaxBodyWords == 2

Requests == 1..MaxRequests

\* the configuration literal main is built with: the shipped one, and one
\* for each invariant a literal can violate
StartupConfigs ==
    { DefaultConfig,
      Config(IntOf(-1), IntOf(40), IntOf(50)),
      Config(IntOf(20), IntOf(10), IntOf(50)),
      Config(IntOf(20), IntOf(40), IntOf(0)) }

\* Request bodies: text that is no JSON, a JSON object without the
\* documentText member, and objects whose documentText is a string: k words,
\* bare or with white space around them.
BodyTexts ==
    { WordsText(k) : k \in 0..MaxBodyWords }
        \cup { <<" ">> \o WordsText(k) \o <<"\n">> : k \in 0..MaxBodyWords }

Bodies ==
    { [kind |-> "malformed", text |-> << >>],
      [kind |-> "noField", text |-> << >>] }
        \cup { [kind |-> "string", text |-> t] : t \in BodyTexts }

(***************************************************************************)
(* State                                                                   *)
(***************************************************************************)
VARIABLES
    arch,       \* the build: decides what an out-of-range int(x) yields
    config,     \* the configuration handed to NewWordScorer
    pc,         \* where the caller of NewWordScorer (main) stands
    appScorer,  \* the scorer NewWordScorer returned
    err,        \* the error NewWordScorer returned
    result,     \* the outcome of a direct CalculateScore call
    handler,    \* the ScoreHandler's scorer field
    routes,     \* the routes registered with the router
    reqs        \* the requests being handled, one per goroutine

vars == <<arch, config, pc, appScorer, err, result, handler, routes, reqs>>

NoResult ==
    [done |-> FALSE, text |-> << >>, wordCount |-> 0, branch |-> "none",
     score |-> Zero]

NoResponse ==
    [status |-> 0, keys |-> {}, wordCount |-> 0, score |-> Zero, message |-> ""]

IdleRequest ==
    [pc |-> "idle", body |-> [kind |-> "malformed", text |-> << >>],
     requestBody |-> << >>, text |-> << >>, wordCount |-> 0, score |-> Zero,
     scorerCalls |-> 0, resp |-> NoResponse]

(***************************************************************************)
(* The scorer alone: a configuration, NewWordScorer, then one call of      *)
(* CalculateScore with a text.                                             *)
(***************************************************************************)
InitScorer ==
    /\ arch \in Archs
    /\ config \in Configs
    /\ pc = "start"
    /\ appScorer = NilScorer
    /\ err = NoError
    /\ result = NoResult
    /\ handler = NilScorer
    /\ routes = {}
    /\ reqs = [r \in Requests |-> IdleRequest]

Construct ==
    /\ pc = "start"
    /\ \E logResult \in LogOutputResults :
         LET r == NewWordScorer(config, logResult)
         IN  /\ appScorer' = r.scorer
             /\ err' = r.err
    /\ pc' = "constructed"
    /\ UNCHANGED <<arch, config, result, handler, routes, reqs>>

Score ==
    /\ pc = "constructed"
    /\ ~appScorer.nil
    /\ \E text \in Texts :
         LET wordCount == CountWords(text)
             r == ScoreOfCount(appScorer.config, wordCount, arch)
         IN  result' = [done |-> TRUE, text |-> text, wordCount |-> wordCount,
                        branch |-> r.branch, score |-> r.score]
    /\ pc' = "scored"
    /\ UNCHANGED <<arch, config, appScorer, err, handler, routes, reqs>>

NextScorer == Construct \/ Score

SpecScorer == InitScorer /\ [][NextScorer]_vars

(***************************************************************************)
(* The service: main, then PostScore for each request, the requests        *)
(* handled concurrently, one goroutine each.                               *)
(***************************************************************************)
RequiredError ==
    "Key: 'ScoreRequest.TextToScore' Error:Field validation for 'TextToScore' failed on the 'required' tag"

SyntaxError == "invalid character"

\* c.ShouldBindJSON(&requestBody): decode the body, then validate the
\* binding tags.  `required` rejects a field left at its zero value, which
\* for a string is the empty string, member present or not.
ShouldBindJSON(body) ==
    IF body.kind = "malformed"
    THEN [err |-> SyntaxError, TextToScore |-> << >>]
    ELSE LET decoded == IF body.kind = "string" THEN body.text ELSE << >>
         IN  IF decoded = << >>
             THEN [err |-> RequiredError, TextToScore |-> << >>]
             ELSE [err |-> NoError, TextToScore |-> decoded]

\* c.JSON(status, ScoreResponse{...}): originalText and message carry
\* omitempty and are left out when empty; wordCount and score are always
\* written.
RenderJSON(status, wordCount, score, message) ==
    [status |-> status,
     keys |-> {"wordCount", "score"}
                \cup (IF message = "" THEN {} ELSE {"message"}),
     wordCount |-> wordCount, score |-> score, message |-> message]

\* the text read from one slot all requests share
HandlerTextShared(rs, r) == rs[1].requestBody

\* text := requestBody.TextToScore
HandlerText(rs, r) == rs[r].requestBody

InitService ==
    /\ arch \in Archs
    /\ config \in StartupConfigs
    /\ pc = "start"
    /\ appScorer = NilScorer
    /\ err = NoError
    /\ result = NoResult
    /\ handler = NilScorer
    /\ routes = {}
    /\ reqs = [r \in Requests |-> IdleRequest]

\* main: build the scorer, stop if that returned an error, build the
\* handler, register the route and run the router, which may fail to listen
Main ==
    /\ pc = "start"
    /\ \E logResult \in LogOutputResults, listens \in BOOLEAN :
         LET r == NewWordScorer(config, logResult)
         IN  /\ appScorer' = r.scorer
             /\ err' = r.err
             /\ IF r.err # NoError
                THEN /\ pc' = "fatal"
                     /\ UNCHANGED <<handler, routes>>
                ELSE /\ handler' = r.scorer
                     /\ routes' = {"POST /api/score"}
                     /\ pc' = IF listens THEN "serving" ELSE "runFailed"
    /\ UNCHANGED <<arch, config, result, reqs>>

\* PostScore, lines 104-111: bind the body, answer 400 if that fails
Bind(r) ==
    /\ pc = "serving"
    /\ "POST /api/score" \in routes
    /\ reqs[r].pc = "idle"
    /\ \E body \in Bodies :
         LET bound == ShouldBindJSON(body)
         IN  reqs' = [reqs EXCEPT ![r] =
                 IF bound.err # NoError
                 THEN [IdleRequest EXCEPT
                          !.pc = "done", !.body = body,
                          !.resp = RenderJSON(400, 0, Zero,
                                      "Invalid request body: " \o bound.err)]
                 ELSE [IdleRequest EXCEPT
                          !.pc = "bound", !.body = body,
                          !.requestBody = bound.TextToScore]]
    /\ UNCHANGED <<arch, config, pc, appScorer, err, result, handler, routes>>

\* PostScore, lines 114-123: answer 500 without a scorer, else count the
\* words of the text
Count(r) ==
    /\ reqs[r].pc = "bound"
    /\ reqs' = [reqs EXCEPT ![r] =
           IF handler.nil
           THEN [@ EXCEPT !.pc = "done",
                    !.resp = RenderJSON(500, 0, Zero,
                        "Server configuration error: scorer not available.")]
           ELSE [@ EXCEPT !.pc = "counted",
                    !.text = HandlerText(reqs, r),
                    !.wordCount = CountWords(HandlerText(reqs, r)),
                    !.scorerCalls = @ + 1]]
    /\ UNCHANGED <<arch, config, pc, appScorer, err, result, handler, routes>>

\* PostScore, line 124
Calculate(r) ==
    /\ reqs[r].pc = "counted"
    /\ reqs' = [reqs EXCEPT ![r] =
           [@ EXCEPT !.pc = "scored",
                !.score = CalculateScore(handler.config, reqs[r].text, arch),
                !.scorerCalls = @ + 1]]
    /\ UNCHANGED <<arch, config, pc, appScorer, err, result, handler, routes>>

\* PostScore, lines 126-137
Respond(r) ==
    /\ reqs[r].pc = "scored"
    /\ reqs' = [reqs EXCEPT ![r] =
           [@ EXCEPT !.pc = "done",
                !.resp = RenderJSON(200, reqs[r].wordCount, reqs[r].score,
                                    "Scoring successful")]]
    /\ UNCHANGED <<arch, config, pc, appScorer, err, result, handler, routes>>

\* the response is sent and the goroutine ends; the next request may come
Finish(r) ==
    /\ reqs[r].pc = "done"
    /\ reqs' = [reqs EXCEPT ![r] = IdleRequest]
    /\ UNCHANGED <<arch, config, pc, appScorer, err, result, handler, routes>>

Next ==
    \/ Main
    \/ \E r \in Requests : Bind(r)
    \/ \E r \in Requests : Count(r)
    \/ \E r \in Requests : Calculate(r)
    \/ \E r \in Requests : Respond(r)
    \/ \E r \in Requests : Finish(r)

Spec == InitService /\ [][Next]_vars

(***************************************************************************)
(* Properties of the scorer                                                *)
(***************************************************************************)
\* the three invariants of a configuration
ValidConfig(cfg) ==
    /\ IntLe(Zero, cfg.MinScore)
    /\ IntLe(cfg.MinScore, cfg.MaxScore)
    /\ IntLt(Zero, cfg.ThresholdWordsForMaxScore)

BelowThreshold(cfg, wordCount) ==
    IntLt(IntOf(wordCount), cfg.ThresholdWordsForMaxScore)

\* MinScore + wordCount / Threshold * (MaxScore - MinScore) in exact
\* arithmetic, rounded to the nearest integer, halves away from zero:
\* (2 * (min * t + w * range) + t) \div (2 * t)
ExactScore(cfg, wordCount) ==
    LET t == cfg.ThresholdWordsForMaxScore.mag
        range == BigSub(cfg.MaxScore.mag, cfg.MinScore.mag)
        num == BigAdd(BigMul(cfg.MinScore.mag, t),
                      BigMul(BigOf(wordCount), range))
    IN  [neg |-> FALSE,
         mag |-> BigDivMod(BigAdd(BigShl(num, 1), t), BigShl(t, 1)).q]

\* C1: every score CalculateScore returns for a scorer built from a valid
\* configuration lies between MinScore and MaxScore.
C1_ScoreWithinBounds ==
    (result.done /\ ValidConfig(config))
        => /\ IntLe(config.MinScore, result.score)
           /\ IntLe(result.score, config.MaxScore)

C1_Witness ==
    /\ result.done
    /\ ValidConfig(config)
    /\ result.branch = "clampHigh"
    /\ result.score = config.MaxScore

\* C2: NewWordScorer returns an error and no scorer for every configuration
\* that violates an invariant, and a scorer and no error for every other.
C2_ConstructionOutcome ==
    pc # "start"
        => IF ValidConfig(config)
           THEN ~appScorer.nil /\ err = NoError
           ELSE appScorer.nil /\ err # NoError

\* C3: below the threshold the score is the exact interpolation rounded to
\* the nearest integer, halves away from zero.
C3_InterpolationExact ==
    (result.done /\ BelowThreshold(config, result.wordCount))
        => result.score = ExactScore(config, result.wordCount)

\* C4: at or above the threshold the score is exactly MaxScore.
C4_Saturates ==
    (result.done /\ ValidConfig(config)
        /\ ~BelowThreshold(config, result.wordCount))
        => result.score = config.MaxScore

C4_Witness ==
    /\ result.done
    /\ config = DefaultConfig
    /\ result.wordCount >= 50
    /\ result.score = IntOf(40)

\* C9: strictly between 0 and the threshold neither clamping branch of
\* CalculateScore is taken.
C9_ClampUnreachable ==
    (result.done /\ result.wordCount > 0
        /\ BelowThreshold(config, result.wordCount))
        => result.branch = "interpolated"

\* C10: the score never decreases as the word count grows.
C10_Monotone ==
    result.done
        => \A w \in 0..result.wordCount :
              IntLe(ScoreOfCount(config, w, arch).score, result.score)

(***************************************************************************)
(* Properties of the service                                               *)
(***************************************************************************)
\* the non-empty tokens of a text separated by white space, counted by
\* where each ends
TokenCount(text) ==
    Cardinality({ i \in 1..Len(text) :
                    ~IsSpace(text[i])
                    /\ (i = Len(text) \/ IsSpace(text[i + 1])) })

\* what PostScore answers to a body when it is the only request
AloneResponse(body) ==
    LET bound == ShouldBindJSON(body)
    IN  IF bound.err # NoError
        THEN RenderJSON(400, 0, Zero, "Invalid request body: " \o bound.err)
        ELSE IF handler.nil
        THEN RenderJSON(500, 0, Zero,
                        "Server configuration error: scorer not available.")
        ELSE RenderJSON(200, CountWords(bound.TextToScore),
                        CalculateScore(handler.config, bound.TextToScore, arch),
                        "Scoring successful")

\* C5: when the construction of the scorer fails at start-up the process
\* stops there: no route is registered, nothing is served, no request is
\* handled.
C5_StartupAborts ==
    (pc # "start" /\ appScorer.nil)
        => /\ pc = "fatal"
           /\ routes = {}
           /\ \A r \in Requests : reqs[r].pc = "idle"

\* C6: a body carrying a documentText string, handled with a scorer in
\* place, is answered 200 "Scoring successful" with the text's token count
\* and its score.
C6_SuccessResponse ==
    \A r \in Requests :
        (reqs[r].pc = "done" /\ reqs[r].body.kind = "string" /\ ~handler.nil)
            => /\ reqs[r].resp.status = 200
               /\ reqs[r].resp.message = "Scoring successful"
               /\ reqs[r].resp.wordCount = TokenCount(reqs[r].body.text)
               /\ reqs[r].resp.score =
                      CalculateScore(handler.config, reqs[r].body.text, arch)

\* C7: a body that is no JSON or lacks documentText is answered 400 with a
\* body holding the error message and nothing else, and the scorer is not
\* called for it, with or without a scorer in place.
C7_BadRequest ==
    \A r \in Requests :
        (reqs[r].pc = "done" /\ reqs[r].body.kind \in {"malformed", "noField"})
            => /\ reqs[r].resp.status = 400
               /\ reqs[r].resp.keys = {"message"}
               /\ reqs[r].resp.message # ""
               /\ reqs[r].scorerCalls = 0

\* C8: however the requests interleave, the scorer is never changed once
\* built, every response is the one its request would get alone, and equal
\* requests get equal responses.
C8_RequestsIndependent ==
    /\ [](\A r \in Requests :
            reqs[r].pc = "done"
                => /\ reqs[r].resp = AloneResponse(reqs[r].body)
                   /\ \A q \in Requests :
                        (reqs[q].pc = "done" /\ reqs[q].body = reqs[r].body)
                            => reqs[q].resp = reqs[r].resp)
    /\ [][pc # "start" => (appScorer' = appScorer /\ handler' = handler)]_vars

C8_Witness ==
    \E r, q \in Requests :
        /\ reqs[r].pc = "done"
        /\ reqs[r].resp.status = 200
        /\ reqs[q].pc \in {"bound", "counted", "scored"}
        /\ reqs[q].body # reqs[r].body

====
